---- MODULE Spec2Model ----
(***************************************************************************)
(* Model of the regelverk-python scaffold:                                 *)
(*   - the FastAPI application of src/presentation/api (CORS middleware,   *)
(*     the health route and the three placeholder routers);                *)
(*   - the database session dependency get_db_session of                   *)
(*     src/infrastructure/persistence/database.py.                         *)
(* The domain layer (specifications, policies, factories, ports) holds     *)
(* docstrings only and has no behaviour to model.                          *)
(***************************************************************************)
EXTENDS Integers, Sequences, FiniteSets, TLC

VARIABLES
    request,    \* the HTTP request being answered (NoRequest before the first)
    response,   \* the answer the application gave to `request`
    served,     \* number of HTTP requests answered so far
    gen,        \* per consumer: the get_db_session generator it obtained
    sessions,   \* every Session that SessionLocal() has constructed, by identity
    committed,  \* changes persisted in the database
    consumerCommitted \* history: changes a consumer committed itself

httpVars == <<request, response, served>>
dbVars == <<gen, sessions, committed, consumerCommitted>>
vars == <<request, response, served, gen, sessions, committed, consumerCommitted>>

----------------------------------------------------------------------------
(* Bounds of the model *)

\* HTTP requests answered in one behaviour
MaxServed == 2
\* consumers (requests) that each obtain one get_db_session generator
MaxConsumers == 2
\* distinct changes a consumer can make through its session
MaxChanges == 2

----------------------------------------------------------------------------
(* The HTTP application: src/presentation/api/main.py and routes/ *)

None == "none"

\* Request inputs.  TRACE is a method outside Starlette's ALL_METHODS; the
\* path set holds every registered route, a route without its trailing
\* slash and an unregistered path.
Methods == {"GET", "POST", "HEAD", "OPTIONS"}
Paths == {"/health", "/api/v1/admission/", "/api/v1/students/",
          "/api/v1/quotas/", "/api/v1/admission", "/missing"}
Origins == {None, "http://localhost:5173", "http://evil.example"}
RequestedMethods == {None, "GET", "POST", "TRACE"}

Requests ==
    [method : Methods, path : Paths, origin : Origins, acrm : RequestedMethods]

NoRequest == [method |-> None, path |-> None, origin |-> None, acrm |-> None]
NoResponse ==
    [status |-> 0, media |-> None, body |-> None, headers |-> <<>>,
     routed |-> FALSE, handler |-> None]

\* main.py:23  allow_origins=["http://localhost:5173"]
allow_origins_wrong_port == {"http://localhost:3000"}
allow_origins == {"http://localhost:5173"}

\* main.py:25  allow_methods=["*"]: CORSMiddleware replaces a list holding
\* "*" by its ALL_METHODS tuple.
allow_methods == {"DELETE", "GET", "HEAD", "OPTIONS", "PATCH", "POST", "PUT"}

\* main.py:24  allow_credentials=True
allow_credentials == TRUE

\* The route handlers: each returns one constant dict.
health_check_down == [status |-> "down"]
health_check == [status |-> "ok"]

get_admission_info == [message |-> "Admission API"]

get_students_info_pasted == [message |-> "Admission API"]
get_students_info == [message |-> "Student API"]

get_quotas_info == [message |-> "Quota API"]

\* The routing table in registration order: @app.get("/health"), then the
\* three include_router calls; a router's routes are its prefix followed by
\* the route's own path "/".  Every route is registered for GET alone.
routes ==
    << [path |-> "/health", methods |-> {"GET"}, endpoint |-> "health_check"],
       [path |-> "/api/v1/admission" \o "/", methods |-> {"GET"},
        endpoint |-> "get_admission_info"],
       [path |-> "/api/v1/students" \o "/", methods |-> {"GET"},
        endpoint |-> "get_students_info"],
       [path |-> "/api/v1/quotas" \o "/", methods |-> {"GET"},
        endpoint |-> "get_quotas_info"] >>

\* Calling the endpoint function a route names.
CallEndpoint(name) ==
    CASE name = "health_check" -> health_check
      [] name = "get_admission_info" -> get_admission_info
      [] name = "get_students_info" -> get_students_info
      [] name = "get_quotas_info" -> get_quotas_info

\* Indices of the routes whose path matches, and of those whose method
\* matches too (Route.matches: PARTIAL and FULL).
PathMatches(path) == {i \in DOMAIN routes : routes[i].path = path}
FullMatches(req) ==
    {i \in PathMatches(req.path) : req.method \in routes[i].methods}

Min(S) == CHOOSE x \in S : \A y \in S : x <= y

\* The path the router retries when nothing matched (redirect_slashes): a
\* trailing slash added.  No registered route lacks its trailing slash
\* except /health, and no path of Paths is "/health/".
SlashAdded(path) == path \o "/"

\* The router: the first full match runs its endpoint and the dict becomes a
\* JSON body with status 200; a path match with another method is 405;
\* a path that matches once a slash is added is redirected; the rest is 404.
Router(req) ==
    IF FullMatches(req) # {}
    THEN LET r == routes[Min(FullMatches(req))]
         IN [status |-> 200, media |-> "json", body |-> CallEndpoint(r.endpoint),
             headers |-> <<>>, routed |-> TRUE, handler |-> r.endpoint]
    ELSE IF PathMatches(req.path) # {}
    THEN [status |-> 405, media |-> "json",
          body |-> [detail |-> "Method Not Allowed"],
          headers |-> ("allow" :> "GET"), routed |-> TRUE, handler |-> None]
    ELSE IF PathMatches(SlashAdded(req.path)) # {}
    THEN [status |-> 307, media |-> None, body |-> None,
          headers |-> ("location" :> SlashAdded(req.path)),
          routed |-> TRUE, handler |-> None]
    ELSE [status |-> 404, media |-> "json", body |-> [detail |-> "Not Found"],
          headers |-> <<>>, routed |-> TRUE, handler |-> None]

is_allowed_origin(origin) == origin \in allow_origins

\* CORSMiddleware.preflight_response under the arguments of main.py: the
\* answer is built by the middleware; the router is not called.
preflight_response(req) ==
    LET base == ("vary" :> "Origin")
                @@ ("access-control-allow-methods" :>
                      "DELETE, GET, HEAD, OPTIONS, PATCH, POST, PUT")
                @@ ("access-control-max-age" :> "600")
                @@ (IF allow_credentials
                    THEN ("access-control-allow-credentials" :> "true")
                    ELSE <<>>)
        hdrs == IF is_allowed_origin(req.origin)
                THEN ("access-control-allow-origin" :> req.origin) @@ base
                ELSE base
        badOrigin == ~is_allowed_origin(req.origin)
        badMethod == req.acrm \notin allow_methods
        failed == badOrigin \/ badMethod
        failure_text == IF badOrigin /\ badMethod
                        THEN "Disallowed CORS origin, method"
                        ELSE IF badOrigin THEN "Disallowed CORS origin"
                        ELSE "Disallowed CORS method"
    IN [status |-> IF failed THEN 400 ELSE 200, media |-> "text",
        body |-> IF failed THEN failure_text ELSE "OK",
        headers |-> hdrs, routed |-> FALSE, handler |-> None]

\* CORSMiddleware.simple_response: the router answers, and the middleware
\* adds its headers to the answer.
simple_response(req) ==
    LET inner == Router(req)
        cred == IF allow_credentials
                THEN ("access-control-allow-credentials" :> "true")
                ELSE <<>>
        orig == IF is_allowed_origin(req.origin)
                THEN ("access-control-allow-origin" :> req.origin)
                     @@ ("vary" :> "Origin")
                ELSE <<>>
    IN [inner EXCEPT !.headers = orig @@ cred @@ inner.headers]

\* The application as a request meets it: the CORS middleware wraps the router.
App(req) ==
    IF req.origin = None THEN Router(req)
    ELSE IF req.method = "OPTIONS" /\ req.acrm # None THEN preflight_response(req)
    ELSE simple_response(req)

\* One HTTP request is received and answered.
Serve ==
    /\ served < MaxServed
    /\ \E req \in Requests :
          /\ request' = req
          /\ response' = App(req)
    /\ served' = served + 1
    /\ UNCHANGED dbVars

----------------------------------------------------------------------------
(* Initial state of both parts *)

Consumers == 1..MaxConsumers
Changes == 1..MaxChanges

Init ==
    /\ request = NoRequest
    /\ response = NoResponse
    /\ served = 0
    /\ gen = [c \in Consumers |-> [pc |-> "idle", session |-> 0, yields |-> 0,
                                   ended |-> None]]
    /\ sessions = <<>>
    /\ committed = {}
    /\ consumerCommitted = {}

----------------------------------------------------------------------------
(* get_db_session: src/infrastructure/persistence/database.py *)

\* database.py:21-26  the factory is built with autocommit=False.
autocommit == FALSE

\* A Session as SessionLocal() constructs it: open, nothing pending.
\* `discarded` is history: what a close rolled back.
NewSession == [open |-> TRUE, closeCalls |-> 0, pending |-> {}, discarded |-> {}]

\* Session.close(): the transaction in progress is rolled back, so what is
\* pending is discarded, and the connection is released.
SessionClose(s) ==
    [s EXCEPT !.open = FALSE, !.closeCalls = @ + 1, !.pending = {},
              !.discarded = @ \cup s.pending]

\* A consumer calls get_db_session(): it gets a generator object; no line of
\* the body has run yet.
Call(c) ==
    /\ gen[c].pc = "idle"
    /\ gen' = [gen EXCEPT ![c].pc = "created"]
    /\ UNCHANGED <<sessions, committed, consumerCommitted>>
    /\ UNCHANGED httpVars

\* (mutant) one session shared by every call: the yielded session is the
\* first one ever constructed.
StartShared(c) ==
    /\ gen[c].pc = "created"
    /\ sessions' = IF sessions = <<>> THEN <<NewSession>> ELSE sessions
    /\ gen' = [gen EXCEPT ![c].pc = "suspended", ![c].session = 1,
                          ![c].yields = @ + 1]
    /\ UNCHANGED <<committed, consumerCommitted>>
    /\ UNCHANGED httpVars

\* First next() on the generator: session = SessionLocal() constructs a new
\* Session, the try block is entered and the session is yielded.
Start(c) ==
    /\ gen[c].pc = "created"
    /\ sessions' = Append(sessions, NewSession)
    /\ gen' = [gen EXCEPT ![c].pc = "suspended",
                          ![c].session = Len(sessions) + 1,
                          ![c].yields = @ + 1]
    /\ UNCHANGED <<committed, consumerCommitted>>
    /\ UNCHANGED httpVars

\* The generator is closed (or collected) before its first next(): the body
\* never runs and no session exists.
CloseUnstarted(c) ==
    /\ gen[c].pc = "created"
    /\ gen' = [gen EXCEPT ![c].pc = "done", ![c].ended = "unstarted"]
    /\ UNCHANGED <<sessions, committed, consumerCommitted>>
    /\ UNCHANGED httpVars

\* The consumer, holding the yielded session, makes change ch through it.
\* With autocommit off the change stays pending in the session's transaction.
ConsumerAdd(c, ch) ==
    /\ gen[c].pc = "suspended"
    /\ sessions' = [sessions EXCEPT ![gen[c].session].pending =
                                       IF autocommit THEN @ ELSE @ \cup {ch}]
    /\ committed' = IF autocommit THEN committed \cup {ch} ELSE committed
    /\ UNCHANGED <<gen, consumerCommitted>>
    /\ UNCHANGED httpVars

\* The consumer commits its session itself.
ConsumerCommit(c) ==
    /\ gen[c].pc = "suspended"
    /\ sessions[gen[c].session].pending # {}
    /\ committed' = committed \cup sessions[gen[c].session].pending
    /\ consumerCommitted' =
          consumerCommitted \cup sessions[gen[c].session].pending
    /\ sessions' = [sessions EXCEPT ![gen[c].session].pending = {}]
    /\ UNCHANGED gen
    /\ UNCHANGED httpVars

\* The ways a consumer finishes with a suspended generator: next() (normal
\* completion after the yield), throw() (an exception raised in the consumer
\* while it holds the session), close() (early close: GeneratorExit at the
\* yield).
Ways == {"next", "throw", "close"}

\* (mutant) no try/finally: session.close() follows the yield and runs on
\* normal completion only.
FinishNoFinally(c, how) ==
    /\ gen[c].pc = "suspended"
    /\ sessions' = IF how = "next"
                   THEN [sessions EXCEPT
                           ![gen[c].session] = SessionClose(@)]
                   ELSE sessions
    /\ gen' = [gen EXCEPT ![c].pc = "done", ![c].ended = how]
    /\ UNCHANGED <<committed, consumerCommitted>>
    /\ UNCHANGED httpVars

\* (mutant) commit on the way out: what is pending is committed before the
\* session is closed.
FinishCommitting(c, how) ==
    /\ gen[c].pc = "suspended"
    /\ committed' = committed \cup sessions[gen[c].session].pending
    /\ sessions' = [sessions EXCEPT ![gen[c].session] = SessionClose(@)]
    /\ gen' = [gen EXCEPT ![c].pc = "done", ![c].ended = how]
    /\ UNCHANGED consumerCommitted
    /\ UNCHANGED httpVars

\* The generator is resumed at its yield in one of the three ways; each
\* leaves the try block through the finally clause, which closes the
\* session; then the generator has ended.
Finish(c, how) ==
    /\ gen[c].pc = "suspended"
    /\ sessions' = [sessions EXCEPT ![gen[c].session] = SessionClose(@)]
    /\ gen' = [gen EXCEPT ![c].pc = "done", ![c].ended = how]
    /\ UNCHANGED <<committed, consumerCommitted>>
    /\ UNCHANGED httpVars

----------------------------------------------------------------------------
(* Specifications *)

\* The HTTP application answering requests.
Next == Serve

Spec == Init /\ [][Next]_vars

\* Consumers of get_db_session running concurrently.
NextDb ==
    \/ \E c \in Consumers : Call(c)
    \/ \E c \in Consumers : Start(c)
    \/ \E c \in Consumers : CloseUnstarted(c)
    \/ \E c \in Consumers, ch \in Changes : ConsumerAdd(c, ch)
    \/ \E c \in Consumers : ConsumerCommit(c)
    \/ \E c \in Consumers, how \in Ways : Finish(c, how)

SpecDb == Init /\ [][NextDb]_vars

----------------------------------------------------------------------------
(* Properties of the HTTP application, checked under Spec *)

AllowedOrigin == "http://localhost:5173"

IsGet(path) == served > 0 /\ request.method = "GET" /\ request.path = path

JsonOk(body) ==
    /\ response.status = 200
    /\ response.media = "json"
    /\ response.body = body

\* C2: GET /health is always answered with status 200 and the body
\* {"status": "ok"}, whatever requests were answered before it.
HealthAlwaysOk == IsGet("/health") => JsonOk([status |-> "ok"])

\* A second request in a row is GET /health and is answered 200.
HealthAnsweredAfterOthers ==
    served >= 2 /\ IsGet("/health") /\ response.status = 200

\* C3: each of the three routers answers GET on its path with status 200 and
\* its own static message, whatever requests were answered before it.
RoutersStaticMessages ==
    /\ IsGet("/api/v1/admission/") => JsonOk([message |-> "Admission API"])
    /\ IsGet("/api/v1/students/") => JsonOk([message |-> "Student API"])
    /\ IsGet("/api/v1/quotas/") => JsonOk([message |-> "Quota API"])

\* A second request in a row is GET /api/v1/students/ and its handler ran.
StudentsAnsweredAfterOthers ==
    served >= 2 /\ IsGet("/api/v1/students/")
    /\ response.handler = "get_students_info"

IsPreflightFromAllowedOrigin ==
    /\ served > 0
    /\ request.method = "OPTIONS"
    /\ request.acrm # None
    /\ request.origin = AllowedOrigin

PreflightAccepted ==
    /\ response.status = 200
    /\ "access-control-allow-origin" \in DOMAIN response.headers
    /\ ~response.routed
    /\ response.handler = None

\* C4 as stated: every preflight request (OPTIONS with an
\* Access-Control-Request-Method header) from http://localhost:5173 is
\* answered with status 200 and an access-control-allow-origin header before
\* it reaches a route handler.
PreflightAlwaysAccepted == IsPreflightFromAllowedOrigin => PreflightAccepted

\* C4 amended: a preflight request from http://localhost:5173 whose
\* Access-Control-Request-Method is one of DELETE, GET, HEAD, OPTIONS, PATCH,
\* POST, PUT is answered with status 200 and an access-control-allow-origin
\* header before it reaches a route handler.
PreflightOfStandardMethodAccepted ==
    (/\ IsPreflightFromAllowedOrigin
     /\ request.acrm \in {"DELETE", "GET", "HEAD", "OPTIONS", "PATCH", "POST", "PUT"})
    => PreflightAccepted

\* The preflight of the test: OPTIONS /health asking for GET, answered 200.
PreflightForGetAnswered ==
    /\ IsPreflightFromAllowedOrigin
    /\ request.path = "/health"
    /\ request.acrm = "GET"
    /\ response.status = 200
    /\ response.body = "OK"

----------------------------------------------------------------------------
(* Properties of get_db_session, checked under SpecDb *)

Opened(c) == gen[c].session # 0
SessionOf(c) == sessions[gen[c].session]

\* C1: a session that get_db_session opened is closed exactly once when the
\* generator has ended, on each way of finishing (next, throw, close); no
\* session is closed twice, and a session still open belongs to a generator
\* that is suspended at its yield.
SessionClosedExactlyOnce ==
    /\ \A c \in Consumers :
          (gen[c].pc = "done" /\ Opened(c)) =>
             (~SessionOf(c).open /\ SessionOf(c).closeCalls = 1)
    /\ \A s \in DOMAIN sessions : sessions[s].closeCalls <= 1
    /\ \A s \in DOMAIN sessions :
          sessions[s].open =>
             \E c \in Consumers : gen[c].pc = "suspended" /\ gen[c].session = s

\* Two generators have ended, one by an exception thrown in at the yield and
\* one by an early close, and the session of each is closed, once.
ThrowAndCloseEnded ==
    \A how \in {"throw", "close"} :
       \E c \in Consumers :
          /\ gen[c].pc = "done" /\ gen[c].ended = how
          /\ Opened(c) /\ ~SessionOf(c).open /\ SessionOf(c).closeCalls = 1

\* C9: each call of get_db_session constructs one session of its own and
\* yields it once; no two consumers hold the same session, and a consumer
\* suspended at the yield has its session open whatever other consumers
\* closed.
OwnSessionPerCall ==
    /\ \A c \in Consumers : gen[c].yields <= 1
    /\ \A c \in Consumers : (gen[c].yields = 1) <=> Opened(c)
    /\ \A c1, c2 \in Consumers :
          (c1 # c2 /\ Opened(c1) /\ Opened(c2)) => gen[c1].session # gen[c2].session
    /\ Len(sessions) = Cardinality({c \in Consumers : Opened(c)})
    /\ \A c \in Consumers : gen[c].pc = "suspended" => SessionOf(c).open

\* Two consumers held sessions at once; one has finished and its session is
\* closed, the other still holds an open one.
OneClosedOtherStillHolds ==
    \E c1, c2 \in Consumers :
       /\ c1 # c2
       /\ gen[c1].pc = "suspended" /\ SessionOf(c1).open
       /\ gen[c2].pc = "done" /\ Opened(c2) /\ ~SessionOf(c2).open
       /\ gen[c1].session < gen[c2].session

\* C10: get_db_session never commits: only what a consumer committed itself
\* is persisted, and a closed session holds nothing pending; what was pending
\* at the close is discarded, on the normal and on the exception path alike.
NeverCommits ==
    /\ committed \subseteq consumerCommitted
    /\ \A s \in DOMAIN sessions : ~sessions[s].open => sessions[s].pending = {}

\* One generator ended normally and one by an exception, each holding an
\* uncommitted change at that moment, and that change is not persisted.
UncommittedDiscardedOnBothPaths ==
    \A how \in {"next", "throw"} :
       \E c \in Consumers :
          /\ gen[c].pc = "done" /\ gen[c].ended = how
          /\ \E ch \in SessionOf(c).discarded : ch \notin committed

====
